---- MODULE Spec2Model ----
(***************************************************************************)
(* cachify: a function-result memoization layer.                           *)
(*                                                                         *)
(* The module models the two storage backends (MemoryStorage with its      *)
(* expiry sweeper, RedisStorage with its error policy), the per-key lock   *)
(* registries, and the decorator's call path that drives them, and the     *)
(* cache-key derivation of caching/utils/arguments.py.                     *)
(*                                                                         *)
(* Python values are represented as follows.                               *)
(*   None / Optional[x]   the empty sequence << >>, a present value <<x>>  *)
(*   an exception         the name of its class, "" for "nothing raised"   *)
(*   a result object      [val, picklable]: the value the wrapped function *)
(*                        returned and whether pickle accepts it           *)
(*   a dict               a function whose DOMAIN is the set of its keys   *)
(***************************************************************************)
EXTENDS Integers, Sequences, FiniteSets, TLC

VARIABLES
    now,          \* the clock read by CacheEntry.time()
    _CACHE,       \* MemoryStorage._CACHE
    sweeper,      \* the thread running clear_expired_cached_items
    redis,        \* the keys held by the remote store
    redisUp,      \* whether a request to the remote store succeeds
    config,       \* get_redis_config()
    wrapped,      \* per function identity: whether the wrapped function is async
    backend,      \* the storage the decorators were given
    SYNC_LOCKS,   \* cachify/utils/locks.py
    ASYNC_LOCKS,  \* cachify/utils/locks.py
    locks,        \* the lock objects created so far: locks[i] is the holder of lock i
    call,         \* the calls of the wrapped functions, numbered as they start
    execs,        \* per (function, key): executions of the wrapped function started
    peers,        \* per call: the earlier calls for its pair in progress when it started
    disturbed,    \* per (function, key): whether anything made a stored result unavailable
    written,      \* per (function, key): the entry of the last set not followed by a clear
    keyIn,        \* key derivation: the signature, the ignored fields and two calls
    keyOut,       \* key derivation: the cache keys of the two calls
    triples,      \* namespace: two (key prefix, function identity, cache key)
    storedKeys    \* namespace: the keys the two triples are stored under

confVars == <<config, wrapped, backend>>
lockVars == <<SYNC_LOCKS, ASYNC_LOCKS, locks>>
keyVars == <<keyIn, keyOut, triples, storedKeys>>

vars == <<now, _CACHE, sweeper, redis, redisUp, confVars, lockVars,
          call, execs, peers, disturbed, written, keyVars>>

---------------------------------------------------------------------------
(* Bounds of the model *)

MaxCalls == 2
MaxTime == 2
\* The clock and a ttl are Numbers (int or float): they are counted in ticks,
\* TicksPerUnit ticks to the time unit, so that a ttl of 3 ticks is 1.5 units.
TicksPerUnit == 2
MaxArgs == 2

\* A call is made by a caller of its own: a thread, or a task of the event loop.
Callers == 1..MaxCalls
FunctionIds == {"f", "g"}
CacheKeys == {"k1"}
Pairs == FunctionIds \X CacheKeys

None == << >>
Some(x) == <<x>>
\* The ttl of the wrappers of the calls: none, or one time unit.
Ttls == {None, Some(TicksPerUnit)}

NoResult == [val |-> 0, picklable |-> TRUE]

---------------------------------------------------------------------------
(* Cache entry *)

\* CacheEntry(result, ttl): created_at is the clock at construction.
CacheEntry(result, ttl, t) == [result |-> result, ttl |-> ttl, created_at |-> t]

\* entry.is_expired(): a ttl is set and more than ttl has elapsed.
is_expired(entry, t) == entry.ttl # None /\ t - entry.created_at > entry.ttl[1]

---------------------------------------------------------------------------
(* MemoryStorage *)

\* A set that stores nothing.
MemoryStorage_set_drop(cache, t, function_id, cache_key, result, ttl) == cache

MemoryStorage_set(cache, t, function_id, cache_key, result, ttl) ==
    [x \in DOMAIN cache \cup {<<function_id, cache_key>>} |->
        IF x = <<function_id, cache_key>> THEN CacheEntry(result, ttl, t) ELSE cache[x]]

\* A lookup that finds nothing.
MemoryStorage_get_blind(cache, t, function_id, cache_key, skip_cache) == None

\* A lookup that does not look at skip_cache.
MemoryStorage_get_noskip(cache, t, function_id, cache_key, skip_cache) ==
    IF /\ <<function_id, cache_key>> \in DOMAIN cache
       /\ ~is_expired(cache[<<function_id, cache_key>>], t)
    THEN Some(cache[<<function_id, cache_key>>])
    ELSE None

MemoryStorage_get(cache, t, function_id, cache_key, skip_cache) ==
    IF skip_cache THEN None
    ELSE IF /\ <<function_id, cache_key>> \in DOMAIN cache
            /\ ~is_expired(cache[<<function_id, cache_key>>], t)
         THEN Some(cache[<<function_id, cache_key>>])
         ELSE None

MemoryStorage_aset(cache, t, function_id, cache_key, result, ttl) ==
    MemoryStorage_set(cache, t, function_id, cache_key, result, ttl)

MemoryStorage_aget(cache, t, function_id, cache_key, skip_cache) ==
    MemoryStorage_get(cache, t, function_id, cache_key, skip_cache)

MemoryStorage_clear(cache) == [x \in {} |-> CacheEntry(NoResult, None, 0)]

---------------------------------------------------------------------------
(* RedisStorage *)

DEFAULT_KEY_PREFIX == "cache"

_make_key(cfg, function_id, cache_key) ==
    cfg.key_prefix \o ":" \o function_id \o ":" \o cache_key

\* A serializer that accepts every result.
_serialize_any(entry) == [exc |-> "", data |-> Some([fmt |-> "pickle", entry |-> entry])]

\* pickle.dumps(entry): bytes, or TypeError for a result pickle rejects.
_serialize(entry) ==
    IF entry.result.picklable
    THEN [exc |-> "", data |-> Some([fmt |-> "pickle", entry |-> entry])]
    ELSE [exc |-> "TypeError", data |-> None]

\* pickle.loads(data): the entry, or an error for bytes that are no pickle.
_deserialize(data) ==
    IF data.fmt = "pickle"
    THEN [exc |-> "", entry |-> Some(data.entry)]
    ELSE [exc |-> "UnpicklingError", entry |-> None]

\* A precondition check that lets every configuration through.
_require_sync_client_pass(cfg) == ""

_require_sync_client(cfg) == IF cfg.sync_client THEN "" ELSE "RuntimeError"

_require_async_client(cfg) == IF cfg.async_client THEN "" ELSE "RuntimeError"

\* An error handler that swallows under every policy.
_handle_error_swallow(cfg, exc) == ""

\* The exception that leaves _handle_error: the one being handled, or none.
_handle_error(cfg, exc) == IF cfg.on_error = "raise" THEN exc ELSE ""

\* int(x): x truncated towards zero to whole units.
int(x) ==
    IF x >= 0 THEN (x \div TicksPerUnit) * TicksPerUnit
    ELSE -(((-x) \div TicksPerUnit) * TicksPerUnit)

\* A store-side expiry of int(ttl), without the unit added.
_prepare_set_exact(cfg, t, function_id, cache_key, result, ttl) ==
    LET ser == _serialize(CacheEntry(result, ttl, t))
    IN  [exc    |-> ser.exc,
         key    |-> _make_key(cfg, function_id, cache_key),
         data   |-> ser.data,
         expiry |-> IF ttl # None THEN Some(int(ttl[1])) ELSE None]

\* int(ttl) + 1, or None.
_prepare_set(cfg, t, function_id, cache_key, result, ttl) ==
    LET ser == _serialize(CacheEntry(result, ttl, t))
    IN  [exc    |-> ser.exc,
         key    |-> _make_key(cfg, function_id, cache_key),
         data   |-> ser.data,
         expiry |-> IF ttl # None THEN Some(int(ttl[1]) + TicksPerUnit) ELSE None]

\* The store's side of GET: a key whose expiry has passed is gone.
client_get(store, up, t, key) ==
    IF ~up THEN [exc |-> "ConnectionError", data |-> None]
    ELSE IF /\ key \in DOMAIN store
            /\ (store[key].expire_at = None \/ t < store[key].expire_at[1])
         THEN [exc |-> "", data |-> Some(store[key].data)]
         ELSE [exc |-> "", data |-> None]

\* The store's side of SET (expiry = None) and SETEX.
client_set(store, up, t, key, data, expiry) ==
    IF ~up THEN [exc |-> "ConnectionError", store |-> store]
    ELSE [exc   |-> "",
          store |-> [x \in DOMAIN store \cup {key} |->
                       IF x = key
                       THEN [data      |-> data,
                             expire_at |-> IF expiry = None THEN None
                                           ELSE Some(t + expiry[1])]
                       ELSE store[x]]]

RedisStorage_set(store, cfg, up, t, function_id, cache_key, result, ttl) ==
    IF _require_sync_client(cfg) # ""
    THEN [exc |-> _require_sync_client(cfg), store |-> store]
    ELSE LET p == _prepare_set(cfg, t, function_id, cache_key, result, ttl)
         IN  IF p.exc # "" THEN [exc |-> p.exc, store |-> store]
             ELSE LET r == client_set(store, up, t, p.key, p.data[1], p.expiry)
                  IN  IF r.exc # ""
                      THEN [exc |-> _handle_error(cfg, r.exc), store |-> store]
                      ELSE r

RedisStorage_get(store, cfg, up, t, function_id, cache_key, skip_cache) ==
    IF skip_cache THEN [exc |-> "", entry |-> None]
    ELSE IF _require_sync_client(cfg) # ""
    THEN [exc |-> _require_sync_client(cfg), entry |-> None]
    ELSE LET r == client_get(store, up, t, _make_key(cfg, function_id, cache_key))
         IN  IF r.exc # "" THEN [exc |-> _handle_error(cfg, r.exc), entry |-> None]
             ELSE IF r.data = None THEN [exc |-> "", entry |-> None]
             ELSE LET d == _deserialize(r.data[1])
                  IN  IF d.exc # ""
                      THEN [exc |-> _handle_error(cfg, d.exc), entry |-> None]
                      ELSE IF is_expired(d.entry[1], t)
                           THEN [exc |-> "", entry |-> None]
                           ELSE [exc |-> "", entry |-> d.entry]

\* ret is the returned bool, None when an exception leaves the call.
RedisStorage_is_expired(store, cfg, up, t, function_id, cache_key) ==
    IF _require_sync_client(cfg) # ""
    THEN [exc |-> _require_sync_client(cfg), ret |-> None]
    ELSE LET r == client_get(store, up, t, _make_key(cfg, function_id, cache_key))
         IN  IF r.exc # ""
             THEN [exc |-> _handle_error(cfg, r.exc),
                   ret |-> IF _handle_error(cfg, r.exc) = "" THEN Some(TRUE) ELSE None]
             ELSE IF r.data = None THEN [exc |-> "", ret |-> Some(TRUE)]
             ELSE LET d == _deserialize(r.data[1])
                  IN  IF d.exc # ""
                      THEN [exc |-> _handle_error(cfg, d.exc),
                            ret |-> IF _handle_error(cfg, d.exc) = "" THEN Some(TRUE)
                                    ELSE None]
                      ELSE [exc |-> "", ret |-> Some(is_expired(d.entry[1], t))]

RedisStorage_aset(store, cfg, up, t, function_id, cache_key, result, ttl) ==
    IF _require_async_client(cfg) # ""
    THEN [exc |-> _require_async_client(cfg), store |-> store]
    ELSE LET p == _prepare_set(cfg, t, function_id, cache_key, result, ttl)
         IN  IF p.exc # "" THEN [exc |-> p.exc, store |-> store]
             ELSE LET r == client_set(store, up, t, p.key, p.data[1], p.expiry)
                  IN  IF r.exc # ""
                      THEN [exc |-> _handle_error(cfg, r.exc), store |-> store]
                      ELSE r

RedisStorage_aget(store, cfg, up, t, function_id, cache_key, skip_cache) ==
    IF skip_cache THEN [exc |-> "", entry |-> None]
    ELSE IF _require_async_client(cfg) # ""
    THEN [exc |-> _require_async_client(cfg), entry |-> None]
    ELSE LET r == client_get(store, up, t, _make_key(cfg, function_id, cache_key))
         IN  IF r.exc # "" THEN [exc |-> _handle_error(cfg, r.exc), entry |-> None]
             ELSE IF r.data = None THEN [exc |-> "", entry |-> None]
             ELSE LET d == _deserialize(r.data[1])
                  IN  IF d.exc # ""
                      THEN [exc |-> _handle_error(cfg, d.exc), entry |-> None]
                      ELSE IF is_expired(d.entry[1], t)
                           THEN [exc |-> "", entry |-> None]
                           ELSE [exc |-> "", entry |-> d.entry]

RedisStorage_ais_expired(store, cfg, up, t, function_id, cache_key) ==
    IF _require_async_client(cfg) # ""
    THEN [exc |-> _require_async_client(cfg), ret |-> None]
    ELSE LET r == client_get(store, up, t, _make_key(cfg, function_id, cache_key))
         IN  IF r.exc # ""
             THEN [exc |-> _handle_error(cfg, r.exc),
                   ret |-> IF _handle_error(cfg, r.exc) = "" THEN Some(TRUE) ELSE None]
             ELSE IF r.data = None THEN [exc |-> "", ret |-> Some(TRUE)]
             ELSE LET d == _deserialize(r.data[1])
                  IN  IF d.exc # ""
                      THEN [exc |-> _handle_error(cfg, d.exc),
                            ret |-> IF _handle_error(cfg, d.exc) = "" THEN Some(TRUE)
                                    ELSE None]
                      ELSE [exc |-> "", ret |-> Some(is_expired(d.entry[1], t))]

---------------------------------------------------------------------------
(* Cache-key derivation: caching/utils/arguments.py *)

\* Python objects that appear as arguments: ints, strs, tuples and dicts.  A
\* dict is the sequence of its (key, value) tuples in insertion order.
PyInt(n) == [tag |-> "int", n |-> n, s |-> "", elems |-> << >>]
PyStr(s) == [tag |-> "str", n |-> 0, s |-> s, elems |-> << >>]
PyTuple(elems) == [tag |-> "tuple", n |-> 0, s |-> "", elems |-> elems]
PyDict(elems) == [tag |-> "dict", n |-> 0, s |-> "", elems |-> elems]

\* inspect.Parameter: default is None for a parameter without one.
Param(name, kind, default) == [name |-> name, kind |-> kind, default |-> default]

\* A call: the positional arguments and the keyword arguments as written.
NoCall == [args |-> << >>, kwargs |-> << >>]

RECURSIVE pickle_dumps(_)
RECURSIVE pickle_dumps_all(_)
\* pickle.dumps(value): the opcode stream, which frames every object by its
\* type (ints and strs by a length-prefixed opcode, containers by MARK ... op).
pickle_dumps(value) ==
    CASE value.tag = "int" -> <<"BININT", ToString(value.n)>>
      [] value.tag = "str" -> <<"BINUNICODE", value.s>>
      [] value.tag = "tuple" -> <<"MARK">> \o pickle_dumps_all(value.elems) \o <<"TUPLE">>
      [] value.tag = "dict" -> <<"MARK">> \o pickle_dumps_all(value.elems) \o <<"SETITEMS">>

pickle_dumps_all(elems) ==
    IF elems = << >> THEN << >>
    ELSE pickle_dumps(Head(elems)) \o pickle_dumps_all(Tail(elems))

\* blake2b(payload, digest_size=16).hexdigest(), taken as collision-free: the
\* digest stands for the payload it was computed from.
blake2b_hexdigest(payload) == [digest_of |-> payload]

_cache_key_fingerprint(value) == blake2b_hexdigest(pickle_dumps(value))

\* Number of leading positional-or-keyword parameters of a signature.
NPositional(sig) ==
    Cardinality({i \in 1..Len(sig) :
                    \A j \in 1..i : sig[j].kind = "POSITIONAL_OR_KEYWORD"})

HasKind(sig, kind) == \E i \in 1..Len(sig) : sig[i].kind = kind

\* Index of the keyword argument called name, 0 if there is none.
KwIndex(kwargs, name) ==
    IF \E i \in 1..Len(kwargs) : kwargs[i].name = name
    THEN CHOOSE i \in 1..Len(kwargs) : kwargs[i].name = name
    ELSE 0

RECURSIVE SelectKw(_, _)
\* The keyword arguments whose names are not in names, in call order.
SelectKw(kwargs, names) ==
    IF kwargs = << >> THEN << >>
    ELSE IF Head(kwargs).name \in names THEN SelectKw(Tail(kwargs), names)
         ELSE <<PyTuple(<<PyStr(Head(kwargs).name), Head(kwargs).value>>)>>
                  \o SelectKw(Tail(kwargs), names)

\* Signature.bind_partial(*args, **kwargs): positional arguments fill the
\* leading parameters and then *args; keyword arguments go to the parameters
\* they name and the rest, in call order, to **kwargs.  arguments[i] is the
\* value bound to parameter i, None if nothing was bound.
bind_partial(sig, args, kwargs) ==
    LET npos == IF Len(args) < NPositional(sig) THEN Len(args) ELSE NPositional(sig)
        named == {sig[i].name : i \in 1..NPositional(sig)}
        extra == SelectKw(kwargs, named)
    IN  IF Len(args) > npos /\ ~HasKind(sig, "VAR_POSITIONAL") THEN
            [exc |-> "TypeError", arguments |-> << >>]
        ELSE IF \E i \in 1..npos : KwIndex(kwargs, sig[i].name) # 0 THEN
            [exc |-> "TypeError", arguments |-> << >>]
        ELSE IF extra # << >> /\ ~HasKind(sig, "VAR_KEYWORD") THEN
            [exc |-> "TypeError", arguments |-> << >>]
        ELSE
            [exc |-> "",
             arguments |-> [i \in 1..Len(sig) |->
                CASE sig[i].kind = "VAR_POSITIONAL" ->
                        IF Len(args) > npos
                        THEN Some(PyTuple(SubSeq(args, npos + 1, Len(args))))
                        ELSE None
                  [] sig[i].kind = "VAR_KEYWORD" ->
                        IF extra # << >> THEN Some(PyDict(extra)) ELSE None
                  [] OTHER ->
                        IF i <= npos THEN Some(args[i])
                        ELSE IF KwIndex(kwargs, sig[i].name) # 0
                        THEN Some(kwargs[KwIndex(kwargs, sig[i].name)].value)
                        ELSE None]]

\* BoundArguments.apply_defaults(): in the order of the signature, an unbound
\* parameter gets its default, *args gets (), **kwargs gets {}; an unbound
\* parameter without a default stays out.
apply_defaults(sig, arguments) ==
    [i \in 1..Len(sig) |->
        IF arguments[i] # None THEN arguments[i]
        ELSE IF sig[i].default # None THEN sig[i].default
        ELSE IF sig[i].kind = "VAR_POSITIONAL" THEN Some(PyTuple(<< >>))
        ELSE IF sig[i].kind = "VAR_KEYWORD" THEN Some(PyDict(<< >>))
        ELSE None]

RECURSIVE YieldFrom(_, _, _, _)
\* The loop of iter_arguments from parameter i on.
YieldFrom(sig, arguments, ignore_fields, i) ==
    IF i > Len(sig) THEN << >>
    ELSE (IF arguments[i] = None \/ sig[i].name \in ignore_fields THEN << >>
          ELSE IF sig[i].kind \in {"VAR_POSITIONAL", "VAR_KEYWORD"}
               THEN arguments[i][1].elems
               ELSE <<PyTuple(<<PyStr(sig[i].name), arguments[i][1]>>)>>)
         \o YieldFrom(sig, arguments, ignore_fields, i + 1)

\* An iteration that skips no parameter.
iter_arguments_keep_ignored(function_signature, args, kwargs, ignore_fields) ==
    LET bound == bind_partial(function_signature, args, kwargs)
    IN  IF bound.exc # "" THEN [exc |-> bound.exc, items |-> << >>]
        ELSE [exc   |-> "",
              items |-> YieldFrom(function_signature,
                                  apply_defaults(function_signature, bound.arguments),
                                  {}, 1)]

\* The items iter_arguments yields, or the TypeError of the binding.
iter_arguments(function_signature, args, kwargs, ignore_fields) ==
    LET bound == bind_partial(function_signature, args, kwargs)
    IN  IF bound.exc # "" THEN [exc |-> bound.exc, items |-> << >>]
        ELSE [exc   |-> "",
              items |-> YieldFrom(function_signature,
                                  apply_defaults(function_signature, bound.arguments),
                                  ignore_fields, 1)]

\* The key of a call that raised.
NoKey == blake2b_hexdigest(<< >>)

\* A user key function: cache_key_func(args, kwargs).  Its result is one of the
\* objects above, all of which pickle accepts.
KeyFunction(name, args, kwargs) == PyTuple(args)

create_cache_key(function_signature, cache_key_func, ignore_fields, args, kwargs) ==
    IF cache_key_func = None
    THEN LET it == iter_arguments(function_signature, args, kwargs, ignore_fields)
         IN  IF it.exc # "" THEN [exc |-> it.exc, key |-> NoKey]
             ELSE [exc |-> "", key |-> _cache_key_fingerprint(PyTuple(it.items))]
    ELSE [exc |-> "",
          key |-> _cache_key_fingerprint(KeyFunction(cache_key_func[1], args, kwargs))]

---------------------------------------------------------------------------
(* Per-key lock registries *)

\* A registry that makes a lock for every lookup and keeps none of them.
defaultdict_getitem_unshared(d, pool, key) ==
    [dict |-> d, pool |-> Append(pool, 0), lock |-> Len(pool) + 1]

\* defaultdict(Lock).__getitem__(key): the lock stored under key; on the first
\* lookup the factory creates a lock, which is stored and returned.  pool is
\* the sequence of the lock objects created so far, each with its holder
\* (0: not held).
defaultdict_getitem(d, pool, key) ==
    IF key \in DOMAIN d
    THEN [dict |-> d, pool |-> pool, lock |-> d[key]]
    ELSE [dict |-> [x \in DOMAIN d \cup {key} |->
                      IF x = key THEN Len(pool) + 1 ELSE d[x]],
          pool |-> Append(pool, 0),
          lock |-> Len(pool) + 1]

\* The registry key of a (function identity, cache key) pair.
LockKey(function_id, cache_key) == <<function_id, cache_key>>

\* The registry of a function's kind.
Registry(fn) == IF wrapped[fn].is_async THEN ASYNC_LOCKS ELSE SYNC_LOCKS

---------------------------------------------------------------------------
(* The decorator's call path *)

\* missed: the lookup under the lock was answered by the store, with no entry.
Idle == [pc |-> "idle", fn |-> "f", key |-> "k1", skip |-> FALSE, lock |-> 0,
         ran |-> FALSE, missed |-> FALSE, val |-> NoResult, exc |-> ""]

InCall(c) == call[c].pc \in {"acquire", "compute"}

PairOf(c) == <<call[c].fn, call[c].key>>

\* storage.get / storage.aget of the configured backend.
StorageGet(fn, k, skip) ==
    IF backend = "memory"
    THEN [exc   |-> "",
          entry |-> IF wrapped[fn].is_async
                    THEN MemoryStorage_aget(_CACHE, now, fn, k, skip)
                    ELSE MemoryStorage_get(_CACHE, now, fn, k, skip)]
    ELSE IF wrapped[fn].is_async
         THEN RedisStorage_aget(redis, config, redisUp, now, fn, k, skip)
         ELSE RedisStorage_get(redis, config, redisUp, now, fn, k, skip)

\* storage.set / storage.aset of the configured backend.
StorageSet(fn, k, result, ttl) ==
    IF backend = "memory"
    THEN [exc   |-> "",
          cache |-> IF wrapped[fn].is_async
                    THEN MemoryStorage_aset(_CACHE, now, fn, k, result, ttl)
                    ELSE MemoryStorage_set(_CACHE, now, fn, k, result, ttl),
          store |-> redis]
    ELSE LET r == IF wrapped[fn].is_async
                  THEN RedisStorage_aset(redis, config, redisUp, now, fn, k, result, ttl)
                  ELSE RedisStorage_set(redis, config, redisUp, now, fn, k, result, ttl)
         IN  [exc |-> r.exc, cache |-> _CACHE, store |-> r.store]

\* The remote backend cannot serve this function's requests right now.
Faulty(fn) ==
    /\ backend = "redis"
    /\ \/ ~redisUp
       \/ IF wrapped[fn].is_async THEN ~config.async_client ELSE ~config.sync_client

\* A finished call keeps what its caller observes: the value or the exception,
\* and whether the function was executed for it.
Finished(c, ran, val, exc) ==
    [call[c] EXCEPT !.pc = "done", !.ran = ran, !.val = val, !.exc = exc,
                    !.lock = 0, !.missed = FALSE, !.skip = IF ran THEN FALSE ELSE @]

\* wrapper(*args, **kwargs): derive the key, look the entry up; a hit returns
\* it, a miss goes on to the pair's lock, taken from the registry of the
\* function's kind.  Calls are numbered in the order they start.
Call(c) ==
    /\ call[c].pc = "idle"
    /\ \A d \in Callers : d < c => call[d].pc # "idle"
    /\ \E fn \in FunctionIds, k \in CacheKeys, skip \in BOOLEAN :
         LET got == StorageGet(fn, k, skip)
             new == [Idle EXCEPT !.fn = fn, !.key = k, !.skip = skip]
             miss == got.exc = "" /\ got.entry = None
             r == defaultdict_getitem(Registry(fn), locks, LockKey(fn, k))
         IN  /\ call' = [call EXCEPT ![c] =
                    IF got.exc # "" THEN [new EXCEPT !.pc = "done", !.exc = got.exc]
                    ELSE IF got.entry # None
                         THEN [new EXCEPT !.pc = "done", !.val = got.entry[1].result]
                         ELSE [new EXCEPT !.pc = "acquire", !.lock = r.lock]]
             /\ SYNC_LOCKS' = IF miss /\ ~wrapped[fn].is_async THEN r.dict ELSE SYNC_LOCKS
             /\ ASYNC_LOCKS' = IF miss /\ wrapped[fn].is_async THEN r.dict ELSE ASYNC_LOCKS
             /\ locks' = IF miss THEN r.pool ELSE locks
             /\ peers' = [peers EXCEPT ![c] =
                    {d \in Callers : InCall(d) /\ PairOf(d) = <<fn, k>>}]
             /\ disturbed' = [disturbed EXCEPT ![<<fn, k>>] = @ \/ skip \/ Faulty(fn)]
    /\ UNCHANGED <<now, _CACHE, sweeper, redis, redisUp, confVars, execs, written, keyVars>>

\* with lock: the entry is looked up again; a hit or an error leaves the block.
Acquire(c) ==
    /\ call[c].pc = "acquire"
    /\ locks[call[c].lock] = 0
    /\ LET fn == call[c].fn
           k == call[c].key
           got == StorageGet(fn, k, call[c].skip)
       IN  /\ IF got.exc # ""
              THEN /\ call' = [call EXCEPT ![c] = Finished(c, FALSE, NoResult, got.exc)]
                   /\ UNCHANGED <<locks, execs>>
              ELSE IF got.entry # None
              THEN /\ call' = [call EXCEPT ![c] =
                                  Finished(c, FALSE, got.entry[1].result, "")]
                   /\ UNCHANGED <<locks, execs>>
              ELSE /\ call' = [call EXCEPT ![c].pc = "compute", ![c].ran = TRUE,
                                           ![c].missed = ~call[c].skip /\ ~Faulty(fn)]
                   /\ locks' = [locks EXCEPT ![call[c].lock] = c]
                   /\ execs' = [execs EXCEPT ![<<fn, k>>] = @ + 1]
           /\ disturbed' = [disturbed EXCEPT ![<<fn, k>>] = @ \/ Faulty(fn)]
    /\ UNCHANGED <<now, _CACHE, sweeper, redis, redisUp, confVars, SYNC_LOCKS, ASYNC_LOCKS,
                   peers, written, keyVars>>

\* Whether pickle accepts the object the wrapped function returns.  Only the
\* remote backend pickles a result, so the memory backend needs one case.
Picklability == IF backend = "memory" THEN {TRUE} ELSE BOOLEAN

\* The wrapped function returns; its result is stored and the lock released.
\* The n-th execution for a pair returns n.  ttl is the ttl of the wrapper the
\* call went through, which is read here only; a function wrapped twice keeps
\* its identity and may be given another ttl.
Return(c) ==
    /\ call[c].pc = "compute"
    /\ \E picklable \in Picklability, ttl \in Ttls :
         LET fn == call[c].fn
             k == call[c].key
             result == [val |-> execs[<<fn, k>>], picklable |-> picklable]
             s == StorageSet(fn, k, result, ttl)
             stored == s.cache # _CACHE \/ s.store # redis
         IN  /\ _CACHE' = s.cache
             /\ redis' = s.store
             /\ call' = [call EXCEPT ![c] =
                    Finished(c, TRUE, IF s.exc = "" THEN result ELSE NoResult, s.exc)]
             /\ disturbed' = [disturbed EXCEPT ![<<fn, k>>] =
                                 @ \/ Faulty(fn) \/ s.exc # ""]
             /\ written' = IF s.exc = "" /\ ~Faulty(fn)
                           THEN [written EXCEPT ![<<fn, k>>] =
                                    Some(CacheEntry(result, ttl, now))]
                           ELSE written
    /\ locks' = [locks EXCEPT ![call[c].lock] = 0]
    /\ UNCHANGED <<now, sweeper, redisUp, confVars, SYNC_LOCKS, ASYNC_LOCKS,
                   execs, peers, keyVars>>

\* The wrapped function raises; the lock is released and nothing is stored.
Raise(c) ==
    /\ call[c].pc = "compute"
    /\ call' = [call EXCEPT ![c] = Finished(c, TRUE, NoResult, "FunctionError")]
    /\ locks' = [locks EXCEPT ![call[c].lock] = 0]
    /\ disturbed' = [disturbed EXCEPT ![PairOf(c)] = TRUE]
    /\ UNCHANGED <<now, _CACHE, sweeper, redis, redisUp, confVars, SYNC_LOCKS, ASYNC_LOCKS,
                   execs, peers, written, keyVars>>

---------------------------------------------------------------------------
(* The expiry sweeper: MemoryStorage.clear_expired_cached_items *)

Orders(S) ==
    {s \in [1..Cardinality(S) -> S] : \A i, j \in 1..Cardinality(S) : i # j => s[i] # s[j]}

AfterItem(items) ==
    [pc |-> IF Len(items) > 1 THEN "scan" ELSE "sleep", items |-> Tail(items)]

\* The sweeper calls only is_expired() on the entries of its snapshot: an entry
\* is kept there by what is_expired reads.
Stamp(entry) == [ttl |-> entry.ttl, created_at |-> entry.created_at]

\* list(cls._CACHE.items()), in any order of the keys.
SweepSnapshot ==
    /\ backend = "memory"
    /\ sweeper.pc = "sleep"
    /\ DOMAIN _CACHE # {}
    /\ \E o \in Orders(DOMAIN _CACHE) :
         sweeper' = [pc |-> "scan",
                     items |-> [i \in 1..Len(o) |->
                                  [key |-> o[i], entry |-> Stamp(_CACHE[o[i]])]]]
    /\ UNCHANGED <<now, _CACHE, redis, redisUp, confVars, lockVars,
                   call, execs, peers, disturbed, written, keyVars>>

\* A check that finds no entry expired.
SweepCheck_never ==
    /\ sweeper.pc = "scan"
    /\ sweeper' = AfterItem(sweeper.items)
    /\ UNCHANGED <<now, _CACHE, redis, redisUp, confVars, lockVars,
                   call, execs, peers, disturbed, written, keyVars>>

\* if entry.is_expired():
SweepCheck ==
    /\ sweeper.pc = "scan"
    /\ sweeper' = IF is_expired(sweeper.items[1].entry, now)
                  THEN [sweeper EXCEPT !.pc = "del"]
                  ELSE AfterItem(sweeper.items)
    /\ UNCHANGED <<now, _CACHE, redis, redisUp, confVars, lockVars,
                   call, execs, peers, disturbed, written, keyVars>>

\* del cls._CACHE[key]; a KeyError ends the pass (contextlib.suppress).
SweepDel ==
    /\ sweeper.pc = "del"
    /\ LET key == sweeper.items[1].key
       IN  IF key \in DOMAIN _CACHE
           THEN /\ _CACHE' = [x \in DOMAIN _CACHE \ {key} |-> _CACHE[x]]
                /\ sweeper' = AfterItem(sweeper.items)
           ELSE /\ sweeper' = [pc |-> "sleep", items |-> << >>]
                /\ UNCHANGED _CACHE
    /\ UNCHANGED <<now, redis, redisUp, confVars, lockVars,
                   call, execs, peers, disturbed, written, keyVars>>

---------------------------------------------------------------------------
(* The environment *)

\* The entry stored for a pair, in whichever backend is in use.
StoredEntry(p) ==
    IF backend = "memory"
    THEN IF p \in DOMAIN _CACHE THEN Some(_CACHE[p]) ELSE None
    ELSE IF _make_key(config, p[1], p[2]) \in DOMAIN redis
         THEN _deserialize(redis[_make_key(config, p[1], p[2])].data).entry
         ELSE None

\* The clock advances by a time unit.  Only the age of an entry is ever read, so time is
\* counted from the moment the first entry with a ttl is stored.
Tick ==
    /\ now < MaxTime * TicksPerUnit
    /\ \E p \in Pairs : StoredEntry(p) # None /\ StoredEntry(p)[1].ttl # None
    /\ now' = now + TicksPerUnit
    /\ disturbed' = [p \in Pairs |->
          disturbed[p] \/ (StoredEntry(p) # None
                              /\ is_expired(StoredEntry(p)[1], now + TicksPerUnit))]
    /\ UNCHANGED <<_CACHE, sweeper, redis, redisUp, confVars, lockVars,
                   call, execs, peers, written, keyVars>>

\* MemoryStorage.clear()
Clear ==
    /\ backend = "memory"
    /\ DOMAIN _CACHE # {}
    /\ _CACHE' = MemoryStorage_clear(_CACHE)
    /\ disturbed' = [p \in Pairs |-> disturbed[p] \/ p \in DOMAIN _CACHE]
    /\ written' = [p \in Pairs |-> None]
    /\ UNCHANGED <<now, sweeper, redis, redisUp, confVars, lockVars,
                   call, execs, peers, keyVars>>

\* The connection to the remote store drops or comes back.
Fault ==
    /\ backend = "redis"
    /\ redisUp' = ~redisUp
    /\ UNCHANGED <<now, _CACHE, sweeper, redis, confVars, lockVars,
                   call, execs, peers, disturbed, written, keyVars>>

\* Another user of the shared store overwrites the value of a key with bytes
\* that are no pickle of an entry.
Corrupt ==
    /\ backend = "redis"
    /\ \E p \in Pairs :
         LET key == _make_key(config, p[1], p[2])
         IN  /\ key \in DOMAIN redis
             /\ redis[key].data.fmt = "pickle"
             /\ redis' = [redis EXCEPT ![key].data = [fmt |-> "garbage", entry |-> @.entry]]
             /\ disturbed' = [disturbed EXCEPT ![p] = TRUE]
             /\ written' = [written EXCEPT ![p] = None]
    /\ UNCHANGED <<now, _CACHE, sweeper, redisUp, confVars, lockVars,
                   call, execs, peers, keyVars>>

---------------------------------------------------------------------------

EmptyDict == [x \in {} |-> 0]

\* The configurations the calls run under: the memory backend, and the remote
\* backend under each error policy and with the sync client missing.
Configs ==
    {[key_prefix |-> DEFAULT_KEY_PREFIX, sync_client |-> TRUE, async_client |-> TRUE,
      on_error |-> "raise"],
     [key_prefix |-> DEFAULT_KEY_PREFIX, sync_client |-> TRUE, async_client |-> TRUE,
      on_error |-> "silent"],
     [key_prefix |-> DEFAULT_KEY_PREFIX, sync_client |-> FALSE, async_client |-> TRUE,
      on_error |-> "silent"]}

NoKeyIn == [sig |-> << >>, cache_key_func |-> None, ignore_fields |-> {},
            a |-> NoCall, b |-> NoCall]

InitCache ==
    /\ now = 0
    /\ _CACHE = EmptyDict
    /\ sweeper = [pc |-> "sleep", items |-> << >>]
    /\ redis = EmptyDict
    /\ redisUp = TRUE
    /\ wrapped = [fn \in FunctionIds |-> [is_async |-> fn = "g"]]
    /\ SYNC_LOCKS = EmptyDict
    /\ ASYNC_LOCKS = EmptyDict
    /\ locks = << >>
    /\ call = [c \in Callers |-> Idle]
    /\ execs = [p \in Pairs |-> 0]
    /\ peers = [c \in Callers |-> {}]
    /\ disturbed = [p \in Pairs |-> FALSE]
    /\ written = [p \in Pairs |-> None]

Init ==
    /\ InitCache
    /\ backend \in {"memory", "redis"}
    /\ config \in Configs
    /\ backend = "memory" => config.sync_client /\ config.on_error = "raise"
    /\ keyIn = NoKeyIn
    /\ keyOut = << >>
    /\ triples = << >>
    /\ storedKeys = << >>

Next ==
    \/ \E c \in Callers : Call(c)
    \/ \E c \in Callers : Acquire(c)
    \/ \E c \in Callers : Return(c)
    \/ \E c \in Callers : Raise(c)
    \/ SweepSnapshot
    \/ SweepCheck
    \/ SweepDel
    \/ Tick
    \/ Corrupt
    \/ Clear
    \/ Fault

Spec == Init /\ [][Next]_vars

---------------------------------------------------------------------------
(* Key derivation on its own: a signature, the decorator's key parameters and
   two calls of the function, whose keys are derived. *)

Values == {PyInt(1), PyTuple(<<PyStr("a"), PyInt(1)>>)}
KwNames == {"a", "b"}

\* def f(a, b=1), def f(*args, **kwargs), def f(a, *args, **kwargs)
Signatures ==
    {<<Param("a", "POSITIONAL_OR_KEYWORD", None),
       Param("b", "POSITIONAL_OR_KEYWORD", Some(PyInt(1)))>>,
     <<Param("args", "VAR_POSITIONAL", None), Param("kwargs", "VAR_KEYWORD", None)>>,
     <<Param("a", "POSITIONAL_OR_KEYWORD", None),
       Param("args", "VAR_POSITIONAL", None), Param("kwargs", "VAR_KEYWORD", None)>>}

ArgTuples == UNION {[1..n -> Values] : n \in 0..MaxArgs}

\* Keyword arguments in the order written; a name occurs once.
KwDicts ==
    {kw \in UNION {[1..n -> [name : KwNames, value : Values]] :
                      n \in 0..Cardinality(KwNames)} :
        \A i, j \in 1..Len(kw) : i # j => kw[i].name # kw[j].name}

Calls == [args : ArgTuples, kwargs : KwDicts]

KeyInit ==
    /\ InitCache
    /\ backend = "memory"
    /\ config \in {cfg \in Configs : cfg.on_error = "raise"}
    /\ keyIn \in [sig : Signatures, cache_key_func : {None, Some("args")},
                  ignore_fields : {{}, {"b"}}, a : Calls, b : Calls]
    /\ keyOut = << >>
    /\ triples = << >>
    /\ storedKeys = << >>

\* The decorator derives the key of each of the two calls.
DeriveKeys ==
    /\ keyOut = << >>
    /\ keyOut' = <<create_cache_key(keyIn.sig, keyIn.cache_key_func, keyIn.ignore_fields,
                                    keyIn.a.args, keyIn.a.kwargs),
                   create_cache_key(keyIn.sig, keyIn.cache_key_func, keyIn.ignore_fields,
                                    keyIn.b.args, keyIn.b.kwargs)>>
    /\ UNCHANGED <<now, _CACHE, sweeper, redis, redisUp, confVars, lockVars,
                   call, execs, peers, disturbed, written, keyIn, triples, storedKeys>>

KeyNext == DeriveKeys

KeySpec == KeyInit /\ [][KeyNext]_vars

\* The namespace of the stores: key prefixes of deployments sharing one remote
\* store, function identities and cache keys, some of them holding a colon.
KeyPrefixes == {DEFAULT_KEY_PREFIX, "a", "a:b"}
FunctionNames == {"f", "c", "b:c"}
KeyStrings == {"k1", "k2"}
Triples == [key_prefix : KeyPrefixes, function_id : FunctionNames, cache_key : KeyStrings]

\* The key MemoryStorage.set stores a result under: the key of the dict after
\* a set into an empty dict.
MemoryKey(t) ==
    CHOOSE k \in DOMAIN MemoryStorage_set(EmptyDict, 0, t.function_id, t.cache_key,
                                          NoResult, None) : TRUE

\* The key RedisStorage stores a result under, in the deployment configured
\* with the triple's prefix.
RedisKey(t) ==
    _make_key([key_prefix |-> t.key_prefix, sync_client |-> TRUE, async_client |-> TRUE,
               on_error |-> "raise"], t.function_id, t.cache_key)

NamespaceInit ==
    /\ InitCache
    /\ backend = "redis"
    /\ config \in {cfg \in Configs : cfg.on_error = "raise"}
    /\ keyIn = NoKeyIn
    /\ keyOut = << >>
    /\ triples \in Triples \X Triples
    /\ storedKeys = << >>

\* Each backend derives the stored key of the two triples.
MakeKeys ==
    /\ storedKeys = << >>
    /\ storedKeys' = [i \in 1..2 |-> [memory |-> MemoryKey(triples[i]),
                                   redis  |-> RedisKey(triples[i])]]
    /\ UNCHANGED <<now, _CACHE, sweeper, redis, redisUp, confVars, lockVars,
                   call, execs, peers, disturbed, written, keyIn, keyOut, triples>>

NamespaceNext == MakeKeys

NamespaceSpec == NamespaceInit /\ [][NamespaceNext]_vars

\* The ttls of the entries written to the remote store: none, and whole and
\* fractional numbers of time units.
MaxTtl == 2 * TicksPerUnit - 1
ExpiryTtls == {None} \cup {Some(n) : n \in 0..MaxTtl}

ExpiryInit ==
    /\ InitCache
    /\ backend = "redis"
    /\ config \in {cfg \in Configs : cfg.on_error = "raise"}
    /\ keyIn = NoKeyIn
    /\ keyOut = << >>
    /\ triples = << >>
    /\ storedKeys = << >>

\* set / aset of a result with some ttl.
ExpirySet ==
    /\ \E p \in Pairs, ttl \in ExpiryTtls :
         LET s == StorageSet(p[1], p[2], NoResult, ttl)
         IN  /\ s.exc = ""
             /\ redis' = s.store
             /\ written' = [written EXCEPT ![p] = Some(CacheEntry(NoResult, ttl, now))]
    /\ UNCHANGED <<now, _CACHE, sweeper, redisUp, confVars, lockVars,
                   call, execs, peers, disturbed, keyVars>>

\* The clock advances by a tick.
ExpiryTick ==
    /\ now < MaxTime * TicksPerUnit
    /\ now' = now + 1
    /\ UNCHANGED <<_CACHE, sweeper, redis, redisUp, confVars, lockVars,
                   call, execs, peers, disturbed, written, keyVars>>

ExpiryNext == ExpirySet \/ ExpiryTick

ExpirySpec == ExpiryInit /\ [][ExpiryNext]_vars

\* The sweeper thread is scheduled again and again.
SweeperSpec ==
    /\ Spec
    /\ WF_vars(SweepSnapshot) /\ WF_vars(SweepCheck) /\ WF_vars(SweepDel)

FairSpec ==
    /\ Spec
    /\ \A c \in Callers : WF_vars(Acquire(c)) /\ WF_vars(Return(c) \/ Raise(c))

---------------------------------------------------------------------------
(* Single flight *)

\* The lock the registry holds for the pair of call c (0: none).
RegisteredLock(c) ==
    IF LockKey(call[c].fn, call[c].key) \in DOMAIN Registry(call[c].fn)
    THEN Registry(call[c].fn)[LockKey(call[c].fn, call[c].key)]
    ELSE 0

\* C1: at most one caller executes the wrapped function for a (function, key)
\* pair; a caller executes only while it holds the lock the registry keeps for
\* that pair; concurrent callers for one pair go through the same lock.
C1_OneComputationPerPair ==
    /\ \A c, d \in Callers :
          (c # d /\ call[c].pc = "compute" /\ call[d].pc = "compute")
              => PairOf(c) # PairOf(d)
    /\ \A c \in Callers :
          call[c].pc = "compute"
              => RegisteredLock(c) = call[c].lock /\ locks[call[c].lock] = c
    /\ \A c, d \in Callers :
          (InCall(c) /\ InCall(d) /\ PairOf(c) = PairOf(d)) => call[c].lock = call[d].lock

\* One caller executes while another waits on the lock of the same pair.
C1_Witness ==
    \E c, d \in Callers :
        /\ call[c].pc = "compute"
        /\ call[d].pc = "acquire"
        /\ PairOf(c) = PairOf(d)
        /\ locks[call[d].lock] = c

\* Calls c and d were in progress at the same time.
Concurrent(c, d) == c \in peers[d] \/ d \in peers[c]

NoLiveEntry(p) == StoredEntry(p) = None \/ is_expired(StoredEntry(p)[1], now)

\* C3: when the wrapped function raises, the step stores nothing, the caller
\* gets the function's exception, and (the call having found no entry) no live
\* entry is left for the pair, so that the next call executes the function.
C3_FailureNotCached ==
    [][\A c \in Callers :
          (call[c].pc = "compute" /\ call'[c].exc = "FunctionError")
              => /\ call'[c].pc = "done"
                 /\ _CACHE' = _CACHE
                 /\ redis' = redis
                 /\ written' = written
                 /\ call[c].missed => NoLiveEntry(PairOf(c))'
      ]_vars

\* A call raised, and a later call for the same pair found no entry and is
\* executing the function again.
C3_Witness ==
    \E c, d \in Callers :
        /\ c < d
        /\ PairOf(c) = PairOf(d)
        /\ call[c].pc = "done" /\ call[c].ran /\ call[c].exc = "FunctionError"
        /\ call[d].pc = "compute" /\ ~call[d].skip /\ call[d].missed
        /\ execs[PairOf(d)] = 2

\* C4: a lock is held only by a call that is executing the function for the
\* lock's pair, and every caller waiting for a lock gets past it.
C4_LockReleased ==
    /\ [](\A i \in 1..Len(locks) :
            locks[i] # 0
                => /\ call[locks[i]].pc = "compute"
                   /\ call[locks[i]].lock = i
                   /\ RegisteredLock(locks[i]) = i)
    /\ \A c \in Callers : (call[c].pc = "acquire") ~> (call[c].pc # "acquire")

\* A call raised while another was in progress for the same pair, and that one
\* then took the pair's lock and is executing.
C4_Witness ==
    \E c, d \in Callers :
        /\ c \in peers[d]
        /\ call[c].pc = "done" /\ call[c].ran /\ call[c].exc = "FunctionError"
        /\ call[d].pc = "compute"
        /\ RegisteredLock(d) = call[d].lock
        /\ locks[call[d].lock] = d

---------------------------------------------------------------------------
(* Expiry *)

\* C5: an entry set with a numeric ttl at time t, with no later set or clear
\* for its key, is returned by get(skip_cache = false) exactly while
\* now - t <= ttl, in either backend.
C5_TtlWindow ==
    \A p \in Pairs :
        (written[p] # None /\ written[p][1].ttl # None /\ ~Faulty(p[1]))
            => StorageGet(p[1], p[2], FALSE) =
                  [exc   |-> "",
                   entry |-> IF now - written[p][1].created_at <= written[p][1].ttl[1]
                             THEN written[p]
                             ELSE None]

\* C6: an entry set with ttl = None, with no later set or clear for its key,
\* is returned by every get(skip_cache = false) whatever time has passed and
\* whatever the sweeper has done, and the remote store holds it with no expiry.
C6_NoTtlNeverExpires ==
    \A p \in Pairs :
        (written[p] # None /\ written[p][1].ttl = None /\ ~Faulty(p[1]))
            => /\ StorageGet(p[1], p[2], FALSE) = [exc |-> "", entry |-> written[p]]
               /\ backend = "redis"
                     => redis[_make_key(config, p[1], p[2])].expire_at = None

---------------------------------------------------------------------------
(* skip_cache *)

OnError == {"raise", "silent"}

\* Every remote configuration: each client registered or not, each policy.
RedisConfigs ==
    [key_prefix : {DEFAULT_KEY_PREFIX}, sync_client : BOOLEAN, async_client : BOOLEAN,
     on_error : OnError]

\* C7: with skip_cache true get returns absent whatever the store holds, with
\* no client lookup and no request (nothing is raised without a client or with
\* the store unreachable) and no change of the store; the call goes on to
\* execute the function and stores the result it computed.
C7_SkipCache ==
    /\ [](\A fn \in FunctionIds, k \in CacheKeys :
            /\ MemoryStorage_get(_CACHE, now, fn, k, TRUE) = None
            /\ MemoryStorage_aget(_CACHE, now, fn, k, TRUE) = None
            /\ \A cfg \in RedisConfigs, up \in BOOLEAN :
                 /\ RedisStorage_get(redis, cfg, up, now, fn, k, TRUE)
                       = [exc |-> "", entry |-> None]
                 /\ RedisStorage_aget(redis, cfg, up, now, fn, k, TRUE)
                       = [exc |-> "", entry |-> None])
    /\ [][\A c \in Callers :
            /\ (call[c].pc \in {"idle", "acquire"} /\ call'[c] # call[c] /\ call'[c].skip)
                   => /\ call'[c].pc \in {"acquire", "compute"}
                      /\ _CACHE' = _CACHE
                      /\ redis' = redis
            /\ (call[c].pc = "compute" /\ call[c].skip /\ call'[c].pc = "done"
                  /\ call'[c].exc = "" /\ ~Faulty(call[c].fn))
                   => \E ttl \in Ttls :
                         StoredEntry(PairOf(c))' = Some(CacheEntry(call'[c].val, ttl, now))
         ]_vars

\* A skipping call is executing the function a second time while the store
\* holds the live result of the first execution.
C7_Witness ==
    \E c, d \in Callers :
        /\ c < d /\ PairOf(c) = PairOf(d)
        /\ call[c].pc = "done" /\ call[c].ran /\ call[c].exc = ""
        /\ call[d].pc = "compute" /\ call[d].skip
        /\ execs[PairOf(d)] = 2
        /\ StoredEntry(PairOf(d)) # None
        /\ ~is_expired(StoredEntry(PairOf(d))[1], now)
        /\ StoredEntry(PairOf(d))[1].result = call[c].val

---------------------------------------------------------------------------
(* Error policy *)

\* The client the function's kind needs is registered.
HasClient(fn) == IF wrapped[fn].is_async THEN config.async_client ELSE config.sync_client

\* C8: with the store unreachable, get raises the store's exception under the
\* "raise" policy; under another policy get returns absent, is_expired returns
\* true and set is swallowed, the call executes the function and the caller
\* receives the computed result.
C8_ErrorPolicy ==
    /\ [](\A fn \in FunctionIds, k \in CacheKeys, cfg \in RedisConfigs :
            /\ cfg.sync_client =>
                 /\ RedisStorage_get(redis, cfg, FALSE, now, fn, k, FALSE)
                       = [exc |-> IF cfg.on_error = "raise" THEN "ConnectionError" ELSE "",
                          entry |-> None]
                 /\ RedisStorage_is_expired(redis, cfg, FALSE, now, fn, k)
                       = IF cfg.on_error = "raise"
                         THEN [exc |-> "ConnectionError", ret |-> None]
                         ELSE [exc |-> "", ret |-> Some(TRUE)]
                 /\ cfg.on_error # "raise" =>
                      RedisStorage_set(redis, cfg, FALSE, now, fn, k, NoResult, Some(TicksPerUnit))
                         = [exc |-> "", store |-> redis]
            /\ cfg.async_client =>
                 /\ RedisStorage_aget(redis, cfg, FALSE, now, fn, k, FALSE)
                       = [exc |-> IF cfg.on_error = "raise" THEN "ConnectionError" ELSE "",
                          entry |-> None]
                 /\ RedisStorage_ais_expired(redis, cfg, FALSE, now, fn, k)
                       = IF cfg.on_error = "raise"
                         THEN [exc |-> "ConnectionError", ret |-> None]
                         ELSE [exc |-> "", ret |-> Some(TRUE)]
                 /\ cfg.on_error # "raise" =>
                      RedisStorage_aset(redis, cfg, FALSE, now, fn, k, NoResult, Some(TicksPerUnit))
                         = [exc |-> "", store |-> redis])
    /\ [][\A c \in Callers :
            (backend = "redis" /\ ~redisUp /\ call'[c] # call[c]
               /\ ~(IF call[c].pc = "idle" THEN call'[c].skip ELSE call[c].skip)
               /\ HasClient(call'[c].fn))
                => IF config.on_error = "raise"
                   THEN call[c].pc \in {"idle", "acquire"}
                           => call'[c].pc = "done" /\ call'[c].exc = "ConnectionError"
                   ELSE /\ call[c].pc = "idle" => call'[c].pc = "acquire"
                        /\ call[c].pc = "acquire" => call'[c].pc = "compute"
                        /\ (call[c].pc = "compute" /\ call'[c].exc = "")
                              => /\ call'[c].val.val = execs[PairOf(c)]
                                 /\ redis' = redis
         ]_vars

\* Under the silent policy a call whose lookup under the lock found the store
\* unreachable is executing the function.
C8_Witness ==
    /\ backend = "redis"
    /\ config.on_error = "silent"
    /\ ~redisUp
    /\ \E c \in Callers :
         /\ HasClient(call[c].fn)
         /\ call[c].pc = "compute" /\ ~call[c].skip /\ ~call[c].missed
         /\ execs[PairOf(c)] = 1
         /\ StoredEntry(PairOf(c)) = None

---------------------------------------------------------------------------
(* Cache keys *)

Range(seq) == {seq[i] : i \in 1..Len(seq)}

\* The parameters of the signature, after binding and defaults, for a call.
BoundOf(c) == apply_defaults(keyIn.sig, bind_partial(keyIn.sig, c.args, c.kwargs).arguments)

\* Two calls give every parameter outside ignored the same value; the keyword
\* arguments collected by **kwargs are compared as a mapping.
SameArguments(x, y, ignored) ==
    \A i \in 1..Len(keyIn.sig) :
        keyIn.sig[i].name \notin ignored =>
            /\ (BoundOf(x)[i] = None) = (BoundOf(y)[i] = None)
            /\ BoundOf(x)[i] # None =>
                  IF keyIn.sig[i].kind = "VAR_KEYWORD"
                  THEN Range(BoundOf(x)[i][1].elems) = Range(BoundOf(y)[i][1].elems)
                  ELSE BoundOf(x)[i] = BoundOf(y)[i]

\* Both keys were derived on the default path and no call was rejected.
DefaultKeys ==
    /\ keyOut # << >>
    /\ keyIn.cache_key_func = None
    /\ keyOut[1].exc = "" /\ keyOut[2].exc = ""

\* C9: two calls of a function with semantically equal arguments (positional or
\* by keyword, default omitted or given, keywords in any order) get one key.
C9_EqualArgumentsSameKey ==
    (DefaultKeys /\ SameArguments(keyIn.a, keyIn.b, {}))
        => keyOut[1].key = keyOut[2].key

\* C10: two calls of a function whose arguments differ outside the ignored
\* parameters get different keys, the hash being collision-free; an element
\* of *args and a (name, value) pair of **kwargs are different arguments.
C10_DistinctArgumentsDistinctKeys ==
    (DefaultKeys /\ ~SameArguments(keyIn.a, keyIn.b, keyIn.ignore_fields))
        => keyOut[1].key # keyOut[2].key

\* The signature declares every name of ignore_fields, and there is one.
DeclaresIgnored ==
    /\ keyIn.ignore_fields # {}
    /\ \A n \in keyIn.ignore_fields : \E i \in 1..Len(keyIn.sig) : keyIn.sig[i].name = n

\* The two calls bind every parameter outside ignore_fields to the same object.
DifferOnlyInIgnored ==
    \A i \in 1..Len(keyIn.sig) :
        keyIn.sig[i].name \notin keyIn.ignore_fields
            => BoundOf(keyIn.a)[i] = BoundOf(keyIn.b)[i]

\* C11: on the default key path two calls that differ only in the value of a
\* parameter named in ignore_fields get the same key, however the ignored
\* parameter is passed (positionally, by keyword, or left to its default).
C11_IgnoredFieldsLeaveKey ==
    (DefaultKeys /\ DeclaresIgnored /\ DifferOnlyInIgnored)
        => keyOut[1].key = keyOut[2].key

\* The ignored parameter b is passed positionally in one call and by keyword,
\* with another value, in the other; the keys are equal.
C11_Witness ==
    /\ DefaultKeys /\ DeclaresIgnored /\ DifferOnlyInIgnored
    /\ Len(keyIn.a.args) = 2
    /\ Len(keyIn.b.args) = 1 /\ KwIndex(keyIn.b.kwargs, "b") # 0
    /\ BoundOf(keyIn.a) # BoundOf(keyIn.b)
    /\ keyOut[1].key = keyOut[2].key

---------------------------------------------------------------------------
(* Remote backend: preconditions and serialization *)

\* A result pickle rejects.
Unpicklable == [val |-> 1, picklable |-> FALSE]

\* C12: an operation of the remote backend whose client is not registered
\* raises the configuration error under every policy, whether or not the
\* store is reachable and whatever the result, and leaves the store as it is;
\* the call that needed the client ends with that error.
C12_MissingClient ==
    /\ [](\A fn \in FunctionIds, k \in CacheKeys, cfg \in RedisConfigs, up \in BOOLEAN :
            /\ ~cfg.sync_client =>
                 /\ RedisStorage_get(redis, cfg, up, now, fn, k, FALSE)
                       = [exc |-> "RuntimeError", entry |-> None]
                 /\ RedisStorage_is_expired(redis, cfg, up, now, fn, k)
                       = [exc |-> "RuntimeError", ret |-> None]
                 /\ \A result \in {NoResult, Unpicklable}, ttl \in Ttls :
                      RedisStorage_set(redis, cfg, up, now, fn, k, result, ttl)
                         = [exc |-> "RuntimeError", store |-> redis]
            /\ ~cfg.async_client =>
                 /\ RedisStorage_aget(redis, cfg, up, now, fn, k, FALSE)
                       = [exc |-> "RuntimeError", entry |-> None]
                 /\ RedisStorage_ais_expired(redis, cfg, up, now, fn, k)
                       = [exc |-> "RuntimeError", ret |-> None]
                 /\ \A result \in {NoResult, Unpicklable}, ttl \in Ttls :
                      RedisStorage_aset(redis, cfg, up, now, fn, k, result, ttl)
                         = [exc |-> "RuntimeError", store |-> redis])
    /\ [][\A c \in Callers :
            (backend = "redis" /\ call[c].pc = "idle" /\ call'[c] # call[c]
               /\ ~call'[c].skip /\ ~HasClient(call'[c].fn))
                => /\ call'[c].pc = "done"
                   /\ call'[c].exc = "RuntimeError"
                   /\ redis' = redis
         ]_vars

\* Under the silent policy, with entries in the store, a call of a sync
\* function ended with the configuration error for want of the sync client.
C12_Witness ==
    /\ backend = "redis"
    /\ config.on_error = "silent"
    /\ ~config.sync_client
    /\ DOMAIN redis # {}
    /\ \E c \in Callers :
         /\ ~wrapped[call[c].fn].is_async
         /\ call[c].pc = "done" /\ ~call[c].ran /\ ~call[c].skip
         /\ call[c].exc = "RuntimeError"

\* C13: when the result cannot be pickled, set and aset raise the
\* serialization error under every policy, whether or not the store is
\* reachable, and the store keeps what it held; the call ends with that error.
C13_SerializationError ==
    /\ [](\A fn \in FunctionIds, k \in CacheKeys, cfg \in RedisConfigs, up \in BOOLEAN,
             ttl \in Ttls :
            /\ cfg.sync_client =>
                 RedisStorage_set(redis, cfg, up, now, fn, k, Unpicklable, ttl)
                    = [exc |-> "TypeError", store |-> redis]
            /\ cfg.async_client =>
                 RedisStorage_aset(redis, cfg, up, now, fn, k, Unpicklable, ttl)
                    = [exc |-> "TypeError", store |-> redis])
    /\ [][\A c \in Callers :
            (call[c].pc = "compute" /\ call'[c].exc = "TypeError")
                => call'[c].pc = "done" /\ redis' = redis /\ written' = written
         ]_vars

\* Under the silent policy the second execution for a pair returned an object
\* pickle rejects: the call ended with the serialization error and the store
\* still holds the entry of the first execution.
C13_Witness ==
    /\ backend = "redis"
    /\ config.on_error = "silent"
    /\ \E c \in Callers :
         /\ call[c].pc = "done" /\ call[c].ran /\ call[c].exc = "TypeError"
         /\ execs[PairOf(c)] = 2
         /\ StoredEntry(PairOf(c)) # None
         /\ StoredEntry(PairOf(c))[1].result = [val |-> 1, picklable |-> TRUE]

\* The store is reachable and holds, for the pair, bytes that do not
\* deserialize.
HoldsGarbage(p) ==
    /\ backend = "redis"
    /\ redisUp
    /\ HasClient(p[1])
    /\ client_get(redis, redisUp, now, _make_key(config, p[1], p[2])).data # None
    /\ _deserialize(client_get(redis, redisUp, now,
                               _make_key(config, p[1], p[2])).data[1]).exc # ""

\* C14: a stored value that fails to deserialize is read like an absent key:
\* get and aget return absent and raise nothing, under every error policy.
C14_GarbageIsAbsent ==
    \A p \in Pairs :
        HoldsGarbage(p) => StorageGet(p[1], p[2], FALSE) = [exc |-> "", entry |-> None]

---------------------------------------------------------------------------
(* Memory backend: sweeper and writes *)

\* C15: the sweeper removes only expired entries: whenever a step of the
\* sweeper removes a key, the entry the store holds for it at that moment is
\* expired (a fresh entry set after the snapshot survives the pass).
C15_SweeperRemovesOnlyExpired ==
    [][\A p \in DOMAIN _CACHE :
          (sweeper' # sweeper /\ p \notin DOMAIN _CACHE') => is_expired(_CACHE[p], now)
      ]_vars

\* The results a set is tried with.
SomeResults == {[val |-> 1, picklable |-> TRUE], [val |-> 2, picklable |-> TRUE]}

\* C16: set writes unconditionally and the last write wins: after
\* set(function_id, cache_key, r, ttl) the store holds for the key a fresh entry
\* (r, ttl, created_at = now) whatever it held before, and every other key
\* holds what it held; clear leaves the memory store empty.
C16_LastWriteWins ==
    /\ [](\A p \in Pairs, r \in SomeResults, ttl \in Ttls :
            /\ \A after \in {MemoryStorage_set(_CACHE, now, p[1], p[2], r, ttl),
                             MemoryStorage_aset(_CACHE, now, p[1], p[2], r, ttl)} :
                 /\ DOMAIN after = DOMAIN _CACHE \cup {p}
                 /\ after[p] = CacheEntry(r, ttl, now)
                 /\ \A q \in DOMAIN _CACHE \ {p} : after[q] = _CACHE[q]
            /\ \A cfg \in {c \in RedisConfigs : c.sync_client /\ c.async_client} :
               \A done \in {RedisStorage_set(redis, cfg, TRUE, now, p[1], p[2], r, ttl),
                            RedisStorage_aset(redis, cfg, TRUE, now, p[1], p[2], r, ttl)} :
                 /\ done.exc = ""
                 /\ DOMAIN done.store = DOMAIN redis \cup {_make_key(cfg, p[1], p[2])}
                 /\ _deserialize(done.store[_make_key(cfg, p[1], p[2])].data)
                       = [exc |-> "", entry |-> Some(CacheEntry(r, ttl, now))]
                 /\ \A x \in DOMAIN redis \ {_make_key(cfg, p[1], p[2])} :
                       done.store[x] = redis[x])
    /\ [](DOMAIN MemoryStorage_clear(_CACHE) = {})
    /\ [][\A c \in Callers :
            (call[c].pc = "compute" /\ call'[c].pc = "done" /\ call'[c].exc = ""
               /\ ~Faulty(call[c].fn))
                => /\ StoredEntry(PairOf(c))' # None
                   /\ StoredEntry(PairOf(c))'[1].result = call'[c].val
                   /\ StoredEntry(PairOf(c))'[1].created_at = now
                   /\ \A q \in Pairs \ {PairOf(c)} : StoredEntry(q)' = StoredEntry(q)
         ]_vars

\* The entry of a pair was overwritten by a second execution at a later time.
C16_Witness ==
    \E p \in Pairs :
        /\ execs[p] = 2
        /\ StoredEntry(p) # None
        /\ StoredEntry(p)[1].result.val = 2
        /\ StoredEntry(p)[1].created_at > 0
        /\ StoredEntry(p)[1].created_at = now

\* C17: the sweeper loop never stops, also when a pass is aborted by an
\* exception, and under fair scheduling of the sweeper an entry of the memory
\* store that is expired is eventually absent from it, unless it is
\* overwritten by a fresh one; a lookup changes nothing in the store.
C17_ExpiredEventuallyDeleted ==
    /\ [](sweeper.pc \in {"sleep", "scan", "del"})
    /\ \A p \in Pairs :
          (backend = "memory" /\ p \in DOMAIN _CACHE /\ is_expired(_CACHE[p], now))
             ~> (p \notin DOMAIN _CACHE \/ ~is_expired(_CACHE[p], now))
    /\ [][\A c \in Callers :
            (call[c].pc \in {"idle", "acquire"} /\ call'[c] # call[c]) => _CACHE' = _CACHE
         ]_vars

\* The sweeper is about to delete a key that clear has removed since the
\* snapshot: the pass is aborted by the KeyError.
C17_Witness ==
    /\ backend = "memory"
    /\ sweeper.pc = "del"
    /\ sweeper.items[1].key \notin DOMAIN _CACHE

\* C18: two different triples (key prefix, function identity, cache key) are
\* never stored under the same key: different (function identity, cache key)
\* give different keys of the memory dict, and different triples give
\* different key strings of the remote store.
C18_NamespaceCollisionFree ==
    storedKeys # << >> =>
        /\ <<triples[1].function_id, triples[1].cache_key>>
              # <<triples[2].function_id, triples[2].cache_key>>
           => storedKeys[1].memory # storedKeys[2].memory
        /\ triples[1] # triples[2] => storedKeys[1].redis # storedKeys[2].redis

\* The store-side expiry of the entry last written for a pair.
ExpireAt(p) == redis[_make_key(config, p[1], p[2])].expire_at

\* C19 as stated: the remote store holds an entry written with a ttl under an
\* expiry of exactly ttl + 1 time unit, and an entry written without ttl under
\* no expiry.
C19_ExpiryIsTtlPlusOne ==
    \A p \in Pairs :
        written[p] # None =>
            /\ _make_key(config, p[1], p[2]) \in DOMAIN redis
            /\ IF written[p][1].ttl = None
               THEN ExpireAt(p) = None
               ELSE ExpireAt(p) = Some(written[p][1].created_at + written[p][1].ttl[1]
                                         + TicksPerUnit)

\* C19, amended: the expiry is int(ttl) + 1 time unit (SETEX), none without
\* ttl (SET); it is strictly greater than the ttl, and the store still
\* returns every entry that is_expired considers live.
C19_ExpiryBeyondTtl ==
    \A p \in Pairs :
        written[p] # None =>
            LET e == written[p][1]
                key == _make_key(config, p[1], p[2])
            IN  /\ key \in DOMAIN redis
                /\ IF e.ttl = None
                   THEN ExpireAt(p) = None
                   ELSE /\ ExpireAt(p) = Some(e.created_at + int(e.ttl[1]) + TicksPerUnit)
                        /\ ExpireAt(p)[1] > e.created_at + e.ttl[1]
                /\ ~is_expired(e, now) => client_get(redis, redisUp, now, key).data # None

\* An entry with a fractional ttl, written after the clock started, has been
\* evicted by the store.
C19_Witness ==
    \E p \in Pairs :
        /\ written[p] # None
        /\ written[p][1].ttl # None
        /\ written[p][1].ttl[1] % TicksPerUnit # 0
        /\ written[p][1].created_at > 0
        /\ ExpireAt(p) # None
        /\ now >= ExpireAt(p)[1]

\* The locks a registry holds.
LocksOf(d) == {d[k] : k \in DOMAIN d}

\* The registry keeps every key it holds, with the same lock.
Stable(d, e) == \A k \in DOMAIN d : k \in DOMAIN e /\ e[k] = d[k]

\* The keys of e that d does not hold are the key looked up by the call that
\* starts in this step, each with a lock that did not exist before.
Lazy(d, e) ==
    \A k \in DOMAIN e \ DOMAIN d :
        /\ e[k] = Len(locks) + 1
        /\ \E c \in Callers :
              /\ call[c].pc = "idle"
              /\ call'[c].pc = "acquire"
              /\ LockKey(call'[c].fn, call'[c].key) = k
              /\ call'[c].lock = e[k]

\* C20: the lock registries only grow and are stable: a lock is created on the
\* first lookup of a key and is never removed or replaced; every lookup of the
\* key obtains the lock the registry holds for it; different keys have
\* different locks and the synchronous and asynchronous registries share none.
C20_RegistriesStable ==
    /\ [][/\ Stable(SYNC_LOCKS, SYNC_LOCKS') /\ Stable(ASYNC_LOCKS, ASYNC_LOCKS')
          /\ Lazy(SYNC_LOCKS, SYNC_LOCKS') /\ Lazy(ASYNC_LOCKS, ASYNC_LOCKS')
         ]_vars
    /\ [](\A c \in Callers : InCall(c) => RegisteredLock(c) = call[c].lock)
    /\ [](LocksOf(SYNC_LOCKS) \cap LocksOf(ASYNC_LOCKS) = {})
    /\ [](Cardinality(LocksOf(SYNC_LOCKS)) + Cardinality(LocksOf(ASYNC_LOCKS))
             = Len(locks))

\* Two callers have looked up the key of one pair and one lock was created:
\* the second lookup obtained the lock of the first.
C20_Witness ==
    \E c, d \in Callers :
        /\ c # d
        /\ InCall(c) /\ InCall(d)
        /\ PairOf(c) = PairOf(d)
        /\ call[c].lock = call[d].lock
        /\ RegisteredLock(c) = call[c].lock
        /\ Len(locks) = 1

====
